---- MODULE Spec2Model ----
(***************************************************************************)
(* The Superstore dashboard (src/main.py): one Streamlit script that is    *)
(* run from top to bottom on every user interaction.  A run imports the    *)
(* plotting library, loads a table (upload or default path), coerces the   *)
(* Order Date column, filters by date range and by Region/State/City,      *)
(* aggregates, and renders charts, tables and download buttons.            *)
(*                                                                         *)
(* Each section of the script is one action; pc is the script's position.  *)
(* Widget values and environment answers (does the import succeed, does    *)
(* the default path exist, which file is uploaded) are drawn where the     *)
(* script asks for them.                                                   *)
(***************************************************************************)
EXTENDS Integers, Sequences, FiniteSets, TLC

VARIABLES
    pc,                 \* position of the script in the current run
    runs,               \* how many runs the session has started
    fl,                 \* the uploader's value: an uploaded file or NoFile
    source,             \* which source was read: "none", "upload", "default"
    reader,             \* which reader parsed it: "none", "csv", "excel"
    df,                 \* the script's df (rebound at lines 31-38, 45, 48, 61)
    loaded,             \* history: df as it stood after line 48
    date1, date2,       \* values of the two date inputs, as timestamps
    region, state, city,\* values of the three multiselects
    filtered_df,
    category_df, region_df, linechart, df_sample, sub_category_Year,
    page                \* the elements rendered so far in this run, in order

vars == <<pc, runs, fl, source, reader, df, loaded, date1, date2, region, state, city,
          filtered_df, category_df, region_df, linechart, df_sample,
          sub_category_Year, page>>

----------------------------------------------------------------------------
(* Bounds *)

\* Longest uploaded table, in rows.
MaxRows == 2

\* Runs of the script in one session (the first, then one per interaction).
MaxRuns == 2

----------------------------------------------------------------------------
(* Characters and strings.  A string whose characters matter (a file name, *)
(* a "%Y-%b" label) is a sequence of one-character strings.                *)

Upper == <<"A","B","C","D","E","F","G","H","I","J","K","L","M",
           "N","O","P","Q","R","S","T","U","V","W","X","Y","Z">>
LowerCase == <<"a","b","c","d","e","f","g","h","i","j","k","l","m",
               "n","o","p","q","r","s","t","u","v","w","x","y","z">>

IsUpper(c) == \E i \in 1..Len(Upper) : Upper[i] = c
IsLower(c) == \E i \in 1..Len(LowerCase) : LowerCase[i] = c
IndexIn(c, s) == CHOOSE i \in 1..Len(s) : s[i] = c

\* The character's code point (letters, "." and "-" are all the model uses).
Ord(c) == IF IsUpper(c) THEN 64 + IndexIn(c, Upper)
          ELSE IF IsLower(c) THEN 96 + IndexIn(c, LowerCase)
          ELSE IF c = "-" THEN 45 ELSE 46

\* str.lower(), character by character.
lower(s) == [i \in 1..Len(s) |->
                IF IsUpper(s[i]) THEN LowerCase[IndexIn(s[i], Upper)] ELSE s[i]]

\* str.endswith(suffix): an exact, case-sensitive comparison.
endswith(s, suffix) ==
    /\ Len(s) >= Len(suffix)
    /\ SubSeq(s, Len(s) - Len(suffix) + 1, Len(s)) = suffix

\* Python's ordering of two strings: by code point, a proper prefix first.
RECURSIVE StrLess(_, _)
StrLess(a, b) ==
    IF b = <<>> THEN FALSE
    ELSE IF a = <<>> THEN TRUE
    ELSE IF Ord(Head(a)) # Ord(Head(b)) THEN Ord(Head(a)) < Ord(Head(b))
    ELSE StrLess(Tail(a), Tail(b))

----------------------------------------------------------------------------
(* Timestamps.  A timestamp is the number of hours in a calendar of        *)
(* 31-day slots, which keeps year, month, day and hour recoverable and     *)
(* orders timestamps as time does.  NaT is pandas' "not a time".           *)

NaT == -1

Ts(y, m, d, h) == ((y * 12 + (m - 1)) * 31 + (d - 1)) * 24 + h

Year(ts)  == ts \div (12 * 31 * 24)
Month(ts) == ((ts \div (31 * 24)) % 12) + 1
Day(ts)   == ((ts \div 24) % 31) + 1
Hour(ts)  == ts % 24

IsLeap(y) == (y % 4 = 0 /\ y % 100 # 0) \/ y % 400 = 0
DaysInMonth(y, m) ==
    IF m = 2 THEN (IF IsLeap(y) THEN 29 ELSE 28)
    ELSE IF m \in {4, 6, 9, 11} THEN 30 ELSE 31

\* One cell of the Order Date column is the text "dd/mm/yyyy" or
\* "dd/mm/yyyy hh:00", held as its numeric fields in the order written.
\* Parsing it day-first gives a timestamp, or NaT when the text is no date.
ParseCell(raw) ==
    IF /\ Len(raw) \in {3, 4}
       /\ raw[2] \in 1..12
       /\ raw[1] \in 1..DaysInMonth(raw[3], raw[2])
       /\ (Len(raw) = 4 => raw[4] \in 0..23)
    THEN Ts(raw[3], raw[2], raw[1], IF Len(raw) = 4 THEN raw[4] ELSE 0)
    ELSE NaT

\* pd.to_datetime(column, dayfirst=True, errors='coerce').  pandas before 2.0
\* parses every cell on its own (perCell); pandas 2 guesses the layout from
\* the first cell and coerces a cell of another layout to NaT.
to_datetime(column, perCell) ==
    [i \in 1..Len(column) |->
        IF perCell \/ Len(column[i]) = Len(column[1])
        THEN ParseCell(column[i]) ELSE NaT]

\* Timestamp.date() / st.date_input: the calendar day, and pd.to_datetime of
\* a calendar day: that day at midnight.
DateOf(ts) == ts \div 24
Midnight(day) == day * 24

MonthAbbr == << <<"J","a","n">>, <<"F","e","b">>, <<"M","a","r">>,
                <<"A","p","r">>, <<"M","a","y">>, <<"J","u","n">>,
                <<"J","u","l">>, <<"A","u","g">>, <<"S","e","p">>,
                <<"O","c","t">>, <<"N","o","v">>, <<"D","e","c">> >>

MonthNames == <<"January", "February", "March", "April", "May", "June", "July",
                "August", "September", "October", "November", "December">>

\* Series.dt.to_period("M"): the calendar month, counted from year 0.
to_period_M(ts) == Year(ts) * 12 + (Month(ts) - 1)

\* Period.strftime("%Y-%b"): a four-digit year, "-", the month's abbreviation.
strftime_Y_b(period) == [Y |-> period \div 12, b |-> MonthAbbr[(period % 12) + 1]]

\* Series.dt.month_name()
month_name(ts) == MonthNames[Month(ts)]

\* The string order of two "%Y-%b" labels: the years have four digits, so
\* they compare as numbers; then the abbreviations compare as strings.
LabelLess(a, b) == a.Y < b.Y \/ (a.Y = b.Y /\ StrLess(a.b, b.b))

----------------------------------------------------------------------------
(* The data the model draws from.  A row keeps the columns the script      *)
(* filters, groups and sums by; Order Date is the cell's text until line   *)
(* 45 replaces it by a timestamp.                                          *)

Row(date, reg, st, cty, cat, sub, sales) ==
    [OrderDate |-> date, Region |-> reg, State |-> st, City |-> cty,
     Category |-> cat, SubCategory |-> sub, Sales |-> sales]

RowPool ==
    { Row(<<5, 1, 2020>>,     "East", "New York",   "New York City",
          "Furniture", "Chairs", 1),
      Row(<<7, 4, 2020>>,     "West", "California", "Los Angeles",
          "Office Supplies", "Paper", 3),
      Row(<<5, 1, 2020, 15>>, "East", "New Jersey", "Newark",
          "Furniture", "Chairs", 2),
      Row(<<31, 2, 2020>>,    "West", "California", "Los Angeles",
          "Technology", "Phones", 2) }

\* Every table of at most MaxRows rows of the pool.
Tables == UNION {[1..n -> RowPool] : n \in 0..MaxRows}

\* The values a grouping column can take, in string order (groupby sorts
\* its keys).
KeyOrder(col) ==
    IF col = "Category" THEN <<"Furniture", "Office Supplies", "Technology">>
    ELSE IF col = "Region" THEN <<"East", "West">>
    ELSE <<"Chairs", "Paper", "Phones">>

Name_csv  == <<"d","a","t","a",".","c","s","v">>
Name_txt  == <<"d","a","t","a",".","t","x","t">>
Name_xlsx == <<"d","a","t","a",".","x","l","s","x">>
Name_xls  == <<"d","a","t","a",".","x","l","s">>
Name_CSV  == <<"D","A","T","A",".","C","S","V">>
Name_XLSX == <<"d","a","t","a",".","X","L","S","X">>

FileNames == {Name_csv, Name_txt, Name_xlsx, Name_xls, Name_CSV, Name_XLSX}

\* The table at the default path, when it exists.
DefaultData == [i \in 1..2 |->
    IF i = 1 THEN Row(<<5, 1, 2020>>, "East", "New York", "New York City",
                      "Furniture", "Chairs", 1)
    ELSE Row(<<7, 4, 2020>>, "West", "California", "Los Angeles",
             "Office Supplies", "Paper", 3)]

\* st.file_uploader's value when nothing is uploaded (None).
NoFile == [name |-> <<>>, rows |-> <<>>]

\* st.file_uploader(type=["csv", "txt", "xlsx", "xls"]): the uploader takes
\* a file whose extension, compared without regard to case, is in the list.
AcceptedTypes == { <<".","c","s","v">>, <<".","t","x","t">>,
                   <<".","x","l","s","x">>, <<".","x","l","s">> }
Accepted(name) == \E t \in AcceptedTypes : endswith(lower(name), t)

\* What the bytes of an accepted file are: delimited text or a workbook.
FileFormat(name) ==
    IF endswith(lower(name), <<".","c","s","v">>)
       \/ endswith(lower(name), <<".","t","x","t">>)
    THEN "csv" ELSE "excel"

\* The files a user can upload: a .csv of any table, and the default table
\* under each file name.
Uploads ==
    {f \in {[name |-> Name_csv, rows |-> t] : t \in Tables}
           \cup {[name |-> n, rows |-> DefaultData] : n \in FileNames} :
        Accepted(f.name)}

\* pd.read_csv / pd.read_excel: the rows, or an exception when the bytes are
\* not what the reader reads.
read_csv(f)   == [ok |-> FileFormat(f.name) = "csv",   rows |-> f.rows]
read_excel(f) == [ok |-> FileFormat(f.name) = "excel", rows |-> f.rows]

----------------------------------------------------------------------------
(* Table helpers *)

Range(s) == {s[i] : i \in 1..Len(s)}

RECURSIVE SumSales(_)
SumSales(t) == IF t = <<>> THEN 0 ELSE Head(t).Sales + SumSales(Tail(t))

Min(S) == CHOOSE x \in S : \A y \in S : x <= y
Max(S) == CHOOSE x \in S : \A y \in S : x >= y

\* Series.unique(): the distinct values of a column.
unique(t, col) == {t[i][col] : i \in 1..Len(t)}

\* df[col].isin(values) as a row filter.
isin(t, col, values) == SelectSeq(t, LAMBDA r : r[col] \in values)

\* A rendered element.
El(kind, label, data) == [kind |-> kind, label |-> label, data |-> data]

\* A stop that does not stop: the script goes on.
st_stop_ignored(next) == next

\* st.stop(): the run ends here; `next` is where the script would go on.
st_stop(next) == "stopped"

----------------------------------------------------------------------------
(* The pipeline's steps as functions of tables *)

\* Line 45: the Order Date column replaced by its parsed timestamps.
CoerceOrderDate(t, perCell) ==
    LET parsed == to_datetime([i \in 1..Len(t) |-> t[i].OrderDate], perCell)
    IN  [i \in 1..Len(t) |-> [t[i] EXCEPT !.OrderDate = parsed[i]]]

\* A dropna that drops nothing.
dropna_nothing(t) == t

\* Line 48: df.dropna(subset=["Order Date"])
dropna(t) == SelectSeq(t, LAMBDA r : r.OrderDate # NaT)

\* Lines 52-53: df["Order Date"].min() / .max(); NaT for an empty column.
MinDate(t) == IF t = <<>> THEN NaT ELSE Min({t[i].OrderDate : i \in 1..Len(t)})
MaxDate(t) == IF t = <<>> THEN NaT ELSE Max({t[i].OrderDate : i \in 1..Len(t)})

\* Line 61: the rows with date1 <= Order Date <= date2 (a comparison with
\* NaT is false).
DateRange(t, d1, d2) ==
    SelectSeq(t, LAMBDA r : /\ d1 # NaT /\ d2 # NaT
                            /\ r.OrderDate >= d1 /\ r.OrderDate <= d2)

\* Lines 72-77: one "if selection: keep the rows whose column isin it".
FilterBy(t, col, selection) ==
    IF selection # {} THEN isin(t, col, selection) ELSE t

\* The sidebar filter without its State branch.
SidebarFilter_without_state(t, rg, stt, cty) ==
    FilterBy(FilterBy(t, "Region", rg), "City", cty)

\* Lines 71-77
SidebarFilter(t, rg, stt, cty) ==
    FilterBy(FilterBy(FilterBy(t, "Region", rg), "State", stt), "City", cty)

\* Lines 82, 93: groupby(col, as_index=False)["Sales"].sum(): one row per
\* key present, in key order, with the sum of its rows' Sales.
groupby_sum(t, col) ==
    LET present == SelectSeq(KeyOrder(col), LAMBDA k : k \in unique(t, col))
    IN  [i \in 1..Len(present) |->
            [f \in {col, "Sales"} |->
                IF f = col THEN present[i]
                ELSE SumSales(isin(t, col, {present[i]}))]]

\* Line 112: the month_year column (a monthly period) added to filtered_df.
with_month_year(t) ==
    [i \in 1..Len(t) |-> [month_year |-> to_period_M(t[i].OrderDate)] @@ t[i]]

\* The labels of a set, in string order (groupby sorts its keys).
RECURSIVE SortedLabels(_)
SortedLabels(S) ==
    IF S = {} THEN <<>>
    ELSE LET m == CHOOSE x \in S : \A y \in S \ {x} : LabelLess(x, y)
         IN  <<m>> \o SortedLabels(S \ {m})

\* Line 115: groupby(month_year.dt.strftime("%Y-%b"))["Sales"].sum()
\* .reset_index(): one row per label, in the labels' string order.
groupby_month(t) ==
    LET labels == SortedLabels({strftime_Y_b(t[i].month_year) : i \in 1..Len(t)})
    IN  [i \in 1..Len(labels) |->
            [month_year |-> labels[i],
             Sales |-> SumSales(SelectSeq(t, LAMBDA r :
                           strftime_Y_b(r.month_year) = labels[i]))]]

\* Line 120: linechart.T, the table with rows and columns exchanged.
Transpose(t) ==
    [month_year |-> [i \in 1..Len(t) |-> t[i].month_year],
     Sales      |-> [i \in 1..Len(t) |-> t[i].Sales]]

\* Line 145: filtered_df.head(5)[[...]] (of the listed columns, the ones
\* the model keeps).
HeadRows == 5
head_sample(t) ==
    LET h == SubSeq(t, 1, IF Len(t) < HeadRows THEN Len(t) ELSE HeadRows)
    IN  [i \in 1..Len(h) |->
            [Region |-> h[i].Region, State |-> h[i].State, City |-> h[i].City,
             Category |-> h[i].Category, Sales |-> h[i].Sales]]

\* Line 149: the month column (the month's name, without the year).
with_month(t) ==
    [i \in 1..Len(t) |-> [month |-> month_name(t[i].OrderDate)] @@ t[i]]

\* Line 150: pd.pivot_table(values="Sales", index=["Sub-Category"],
\* columns="month") with the default aggfunc, the mean.  A cell is the
\* fraction num/den; a (Sub-Category, month) pair without rows has no cell.
pivot_table(t) ==
    [p \in {<<t[i].SubCategory, t[i].month>> : i \in 1..Len(t)} |->
        LET rows == SelectSeq(t, LAMBDA r :
                        r.SubCategory = p[1] /\ r.month = p[2])
        IN  [num |-> SumSales(rows), den |-> Len(rows)]]

\* A timestamp as to_csv writes it: "YYYY-MM-DD", with the hour when some
\* value of the column has a time of day.
FormatTs(ts, withTime) ==
    IF withTime THEN <<Year(ts), Month(ts), Day(ts), Hour(ts)>>
    ELSE <<Year(ts), Month(ts), Day(ts)>>

\* DataFrame.to_csv(index=False): the header, then one line per row.
to_csv(t, columns) ==
    LET withTime == \E i \in 1..Len(t) : Hour(t[i].OrderDate) # 0
        cell(r, c) == IF c = "OrderDate" THEN FormatTs(r[c], withTime) ELSE r[c]
    IN  [header |-> columns,
         lines  |-> [i \in 1..Len(t) |->
                        [j \in 1..Len(columns) |-> cell(t[i], columns[j])]]]

DataColumns == <<"OrderDate", "Region", "State", "City", "Category",
                 "SubCategory", "Sales">>

----------------------------------------------------------------------------
(* The script *)

\* The names a run binds, before it binds them.
Fresh ==
    /\ source = "none" /\ reader = "none"
    /\ df = <<>> /\ loaded = <<>>
    /\ date1 = NaT /\ date2 = NaT
    /\ region = {} /\ state = {} /\ city = {}
    /\ filtered_df = <<>> /\ category_df = <<>> /\ region_df = <<>>
    /\ linechart = <<>> /\ df_sample = <<>> /\ sub_category_Year = <<>>
    /\ page = <<>>

Init ==
    /\ pc = "import"
    /\ runs = 1
    /\ fl \in {NoFile} \cup Uploads
    /\ Fresh

data_vars == <<source, reader, df, loaded>>
widget_vars == <<date1, date2, region, state, city>>
derived_vars == <<filtered_df, category_df, region_df, linechart, df_sample,
                  sub_category_Year>>

\* Lines 9-16: the import of plotly succeeds, or the error is shown and the
\* run stops.
ImportPlotly ==
    /\ pc = "import"
    /\ \/ /\ pc' = "load"
          /\ page' = page
       \/ /\ page' = page \o <<El("error", "plotly is not installed", <<>>),
                               El("info", "pip install plotly", <<>>),
                               El("text", "Import error", <<>>)>>
          /\ pc' = st_stop("load")
    /\ UNCHANGED <<runs, fl, data_vars, widget_vars, derived_vars>>

\* Lines 30-33: the reader chosen from the uploaded file's name.
ChooseReader(filename) ==
    IF endswith(filename, <<".","c","s","v">>)
       \/ endswith(filename, <<".","t","x","t">>)
    THEN "csv" ELSE "excel"

\* Lines 19-41: the page's title and uploader, then the table from the
\* uploaded file, or from the default path when it exists; when it does not,
\* the error is shown and the run stops.  A reader given bytes it cannot
\* read raises, which ends the run.
LoadData ==
    /\ pc = "load"
    /\ LET top == page \o <<El("text", "Sample SuperStore EDA", <<>>),
                            El("file_uploader", "Upload a file", fl.name)>>
       IN
       \/ /\ fl # NoFile
          /\ LET filename == fl.name
                 rd == ChooseReader(filename)
                 got == IF rd = "csv" THEN read_csv(fl) ELSE read_excel(fl)
             IN  /\ source' = "upload"
                 /\ reader' = rd
                 /\ IF got.ok
                    THEN /\ df' = got.rows
                         /\ page' = top \o <<El("text", "Uploaded File", filename)>>
                         /\ pc' = "coerce"
                    ELSE /\ df' = df
                         /\ page' = top \o <<El("text", "Uploaded File", filename),
                                             El("exception", "read_excel", <<>>)>>
                         /\ pc' = "crashed"
       \/ /\ fl = NoFile
          /\ \/ /\ source' = "default"          \* os.path.exists(default_path)
                /\ reader' = "csv"
                /\ df' = DefaultData
                /\ page' = top
                /\ pc' = "coerce"
             \/ /\ page' = top \o <<El("error", "Default dataset not found", <<>>)>>
                /\ pc' = st_stop("coerce")
                /\ UNCHANGED <<source, reader, df>>
    /\ UNCHANGED <<runs, fl, loaded, widget_vars, derived_vars>>

\* Line 45
CoerceDates ==
    /\ pc = "coerce"
    /\ \E perCell \in BOOLEAN : df' = CoerceOrderDate(df, perCell)
    /\ pc' = "dropna"
    /\ UNCHANGED <<runs, fl, source, reader, loaded, widget_vars, derived_vars, page>>

\* Line 48
DropUnparsed ==
    /\ pc = "dropna"
    /\ df' = dropna(df)
    /\ loaded' = df'
    /\ pc' = "dates"
    /\ UNCHANGED <<runs, fl, source, reader, widget_vars, derived_vars, page>>

\* The days a user picks from: the days on which the table has rows, and
\* the day after the last of them.
PickDays(t) ==
    {DateOf(t[i].OrderDate) : i \in 1..Len(t)} \cup {DateOf(MaxDate(t)) + 1}

\* Lines 51-61: the two date inputs, which start at the days of the
\* earliest and latest Order Date and return the day picked, and the
\* date-range filter.  On an empty table both defaults are NaT, which
\* st.date_input either rejects or hands back.
DateRangeFilter ==
    /\ pc = "dates"
    /\ LET startDate == MinDate(df)
           endDate == MaxDate(df)
       IN
       \/ /\ df # <<>>
          /\ \E d1 \in PickDays(df), d2 \in PickDays(df) :
                /\ date1' = Midnight(d1)
                /\ date2' = Midnight(d2)
                /\ df' = DateRange(df, Midnight(d1), Midnight(d2))
                /\ page' = page \o
                     <<El("date_input", "Start Date", [default |-> DateOf(startDate), value |-> d1]),
                       El("date_input", "End Date", [default |-> DateOf(endDate), value |-> d2])>>
          /\ pc' = "sidebar"
       \/ /\ df = <<>>
          /\ date1' = startDate
          /\ date2' = endDate
          /\ df' = DateRange(df, startDate, endDate)
          /\ page' = page \o
               <<El("date_input", "Start Date", [default |-> NaT, value |-> NaT]),
                 El("date_input", "End Date", [default |-> NaT, value |-> NaT])>>
          /\ pc' = "sidebar"
       \/ /\ df = <<>>
          /\ page' = page \o <<El("exception", "date_input", <<>>)>>
          /\ pc' = "crashed"
          /\ UNCHANGED <<date1, date2, df>>
    /\ UNCHANGED <<runs, fl, source, reader, loaded, region, state, city, derived_vars>>

\* Lines 64-77: the three multiselects, whose options are the values left
\* in df, and the filter by what is selected.
SidebarFilters ==
    /\ pc = "sidebar"
    /\ \E rg \in SUBSET unique(df, "Region"),
          stt \in SUBSET unique(df, "State"),
          cty \in SUBSET unique(df, "City") :
            /\ region' = rg /\ state' = stt /\ city' = cty
            /\ filtered_df' = SidebarFilter(df, rg, stt, cty)
            /\ page' = page \o
                 <<El("multiselect", "Pick your Region", [options |-> unique(df, "Region"), value |-> rg]),
                   El("multiselect", "Pick your State", [options |-> unique(df, "State"), value |-> stt]),
                   El("multiselect", "Pick your City", [options |-> unique(df, "City"), value |-> cty])>>
    /\ pc' = "charts"
    /\ UNCHANGED <<runs, fl, data_vars, date1, date2, category_df, region_df,
                   linechart, df_sample, sub_category_Year>>

\* Lines 80-95: the two group-by sums and their charts.
CategoryRegionCharts ==
    /\ pc = "charts"
    /\ category_df' = groupby_sum(filtered_df, "Category")
    /\ region_df' = groupby_sum(filtered_df, "Region")
    /\ page' = page \o <<El("chart", "Category wise Sales (bar)", category_df'),
                         El("chart", "Region wise Sales (pie)", region_df')>>
    /\ pc' = "expanders"
    /\ UNCHANGED <<runs, fl, data_vars, widget_vars, filtered_df, linechart,
                   df_sample, sub_category_Year>>

\* The expanders with the Region button given the Category table.
ExpanderElements_copied(cat, reg) ==
    <<El("table", "Category Data", cat),
      El("download_button", "Category.csv", to_csv(cat, <<"Category", "Sales">>)),
      El("table", "Region Data", reg),
      El("download_button", "Region.csv", to_csv(cat, <<"Category", "Sales">>))>>

\* Lines 98-109: each of the two tables, with its download button.
ExpanderElements(cat, reg) ==
    <<El("table", "Category Data", cat),
      El("download_button", "Category.csv", to_csv(cat, <<"Category", "Sales">>)),
      El("table", "Region Data", reg),
      El("download_button", "Region.csv", to_csv(reg, <<"Region", "Sales">>))>>

Expanders ==
    /\ pc = "expanders"
    /\ page' = page \o ExpanderElements(category_df, region_df)
    /\ pc' = "timeseries"
    /\ UNCHANGED <<runs, fl, data_vars, widget_vars, derived_vars>>

\* Lines 112-122: the monthly series, its line chart, its table (shown
\* transposed) and its download button.
TimeSeries ==
    /\ pc = "timeseries"
    /\ filtered_df' = with_month_year(filtered_df)
    /\ linechart' = groupby_month(filtered_df')
    /\ page' = page \o
         <<El("chart", "Time Series Analysis (line)", linechart'),
           El("table", "Time Series Data", Transpose(linechart')),
           El("download_button", "TimeSeries.csv",
              to_csv(linechart', <<"month_year", "Sales">>))>>
    /\ pc' = "treemap"
    /\ UNCHANGED <<runs, fl, data_vars, widget_vars, category_df, region_df,
                   df_sample, sub_category_Year>>

\* Lines 125-140: the treemap and the two pie charts of filtered_df.
TreeMapAndPies ==
    /\ pc = "treemap"
    /\ page' = page \o
         <<El("chart", "Hierarchical View of Sales (treemap)", filtered_df),
           El("chart", "Segment wise Sales (pie)", filtered_df),
           El("chart", "Category wise Sales (pie)", filtered_df)>>
    /\ pc' = "pivot"
    /\ UNCHANGED <<runs, fl, data_vars, widget_vars, derived_vars>>

\* Lines 143-151: the five-row summary table and the pivot table.
TableAndPivot ==
    /\ pc = "pivot"
    /\ df_sample' = head_sample(filtered_df)
    /\ filtered_df' = with_month(filtered_df)
    /\ sub_category_Year' = pivot_table(filtered_df')
    /\ page' = page \o
         <<El("table", "Summary Table", df_sample'),
           El("table", "Month-wise Sub-Category Sales", sub_category_Year')>>
    /\ pc' = "scatter"
    /\ UNCHANGED <<runs, fl, data_vars, widget_vars, category_df, region_df, linechart>>

\* Lines 154-162: the scatter plot, then the "Download Original Data"
\* button, whose content is df as line 61 left it.
ScatterAndDownload ==
    /\ pc = "scatter"
    /\ page' = page \o
         <<El("chart", "Sales vs Profit (scatter)", filtered_df),
           El("download_button", "Data.csv", to_csv(df, DataColumns))>>
    /\ pc' = "done"
    /\ UNCHANGED <<runs, fl, data_vars, widget_vars, derived_vars>>

\* A rerun that keeps what the earlier run rendered.
Rerun_keeps_page ==
    /\ pc \in {"done", "stopped", "crashed"}
    /\ runs < MaxRuns
    /\ runs' = runs + 1
    /\ fl' \in {NoFile} \cup Uploads
    /\ pc' = "import"
    /\ source' = "none" /\ reader' = "none"
    /\ df' = <<>> /\ loaded' = <<>>
    /\ date1' = NaT /\ date2' = NaT
    /\ region' = {} /\ state' = {} /\ city' = {}
    /\ UNCHANGED <<derived_vars, page>>

\* A user interaction: Streamlit runs the script again from the top, with
\* the uploader's value of the moment and nothing else kept.
Rerun ==
    /\ pc \in {"done", "stopped", "crashed"}
    /\ runs < MaxRuns
    /\ runs' = runs + 1
    /\ fl' \in {NoFile} \cup Uploads
    /\ pc' = "import"
    /\ source' = "none" /\ reader' = "none"
    /\ df' = <<>> /\ loaded' = <<>>
    /\ date1' = NaT /\ date2' = NaT
    /\ region' = {} /\ state' = {} /\ city' = {}
    /\ filtered_df' = <<>> /\ category_df' = <<>> /\ region_df' = <<>>
    /\ linechart' = <<>> /\ df_sample' = <<>> /\ sub_category_Year' = <<>>
    /\ page' = <<>>

Next ==
    \/ ImportPlotly
    \/ LoadData
    \/ CoerceDates
    \/ DropUnparsed
    \/ DateRangeFilter
    \/ SidebarFilters
    \/ CategoryRegionCharts
    \/ Expanders
    \/ TimeSeries
    \/ TreeMapAndPies
    \/ TableAndPivot
    \/ ScatterAndDownload
    \/ Rerun

Spec == Init /\ [][Next]_vars

----------------------------------------------------------------------------
(* Properties *)

AfterDropna == {"dates", "sidebar", "charts", "expanders", "timeseries",
                "treemap", "pivot", "scatter", "done"}
AfterDates == AfterDropna \ {"dates"}
AfterSidebar == AfterDates \ {"sidebar"}

\* The rows the run read from its source, as the file holds them.
SourceRows == IF source = "upload" THEN fl.rows
              ELSE IF source = "default" THEN DefaultData ELSE <<>>

AllParsed(t) == \A i \in 1..Len(t) : t[i].OrderDate # NaT

Count(t, r) == Cardinality({i \in 1..Len(t) : t[i] = r})

\* The columns a row has when it is loaded.
Base(t) == [i \in 1..Len(t) |-> [c \in Range(DataColumns) |-> t[i][c]]]

PageHas(kind) == \E i \in 1..Len(page) : page[i].kind = kind
Elements(kind) == {page[i] : i \in {j \in 1..Len(page) : page[j].kind = kind}}

\* C1: once line 48 has run, every row of df, of the loaded table and of
\* filtered_df has a parsed Order Date (no NaT reaches the date-range
\* filter, the sidebar filters, an aggregation or a download); and line 48
\* itself keeps every row whose Order Date parsed, as often as it occurs,
\* and no other row.
C1_LoadKeepsExactlyParsedRows ==
    /\ [](pc \in AfterDropna =>
            AllParsed(df) /\ AllParsed(loaded) /\ AllParsed(filtered_df))
    /\ [][pc = "dropna" =>
            /\ \A i \in 1..Len(df) :
                  df[i].OrderDate # NaT => Count(df', df[i]) = Count(df, df[i])
            /\ Len(df') = Cardinality({i \in 1..Len(df) : df[i].OrderDate # NaT})]_vars

\* C1 witness: line 48 has dropped a row and kept a row.
C1_Witness ==
    /\ pc = "dates"
    /\ Len(df) >= 1
    /\ Len(df) < Len(SourceRows)

\* The user's predicates on one loaded row.
InDateRange(r) ==
    date1 # NaT /\ date2 # NaT /\ date1 <= r.OrderDate /\ r.OrderDate <= date2
Selected(r) ==
    /\ (region = {} \/ r.Region \in region)
    /\ (state = {} \/ r.State \in state)
    /\ (city = {} \/ r.City \in city)

\* The three categorical filters applied in a given order of columns.
SelectionOf(col) == IF col = "Region" THEN region
                    ELSE IF col = "State" THEN state ELSE city
FilterInOrder(t, order) ==
    FilterBy(FilterBy(FilterBy(t, order[1], SelectionOf(order[1])),
                      order[2], SelectionOf(order[2])),
             order[3], SelectionOf(order[3]))
FilterOrders ==
    {o \in [1..3 -> {"Region", "State", "City"}] :
        Range(o) = {"Region", "State", "City"}}

\* C2: after the sidebar filters, filtered_df holds exactly the loaded rows
\* that satisfy date1 <= Order Date <= date2 and, for each of Region, State
\* and City, an empty selection or a selected value; and applying the three
\* categorical filters in any order gives the same table.
C2_FilteredIsConjunction ==
    pc \in AfterSidebar =>
        /\ Base(filtered_df)
             = SelectSeq(loaded, LAMBDA r : InDateRange(r) /\ Selected(r))
        /\ \A o \in FilterOrders : FilterInOrder(df, o) = Base(filtered_df)

\* C2 witness: with a date range that holds two rows, a State selection
\* dropped one and kept the other.
C2_Witness ==
    /\ pc = "done"
    /\ Len(df) = 2
    /\ state # {}
    /\ Len(filtered_df) < Len(df)
    /\ Len(filtered_df) >= 1

LaterKinds == {"date_input", "multiselect", "chart", "table", "download_button"}

\* C3: when a run shows one of the two fatal errors, it has stopped and
\* nothing of a later step exists: no parsed or filtered table, no date
\* input, multiselect, chart, table or download button; a stopped run shows
\* the error; and a run that shows a chart shows no error and has loaded a
\* table.
C3_FatalErrorsHalt ==
    /\ PageHas("error") =>
          /\ pc = "stopped"
          /\ page[Len(page)].kind \in {"error", "text"}
          /\ \A k \in LaterKinds : ~PageHas(k)
          /\ df = <<>> /\ loaded = <<>> /\ filtered_df = <<>>
          /\ source = "none"
    /\ pc = "stopped" => PageHas("error")
    /\ PageHas("chart") => ~PageHas("error") /\ source \in {"upload", "default"}

\* C3 witness: no file is uploaded, the default path does not exist, and the
\* run has stopped on that error.
C3_Witness ==
    /\ pc = "stopped"
    /\ fl = NoFile
    /\ page[Len(page)] = El("error", "Default dataset not found", <<>>)


\* The element of a kind with a label (the script renders each label once).
Element(kind, label) ==
    CHOOSE e \in Elements(kind) : e.label = label
Shows(kind, label) == \E e \in Elements(kind) : e.label = label

\* linechart.T turned back: the table whose transpose is shown.
Untranspose(tt) ==
    [i \in 1..Len(tt.Sales) |-> [month_year |-> tt.month_year[i], Sales |-> tt.Sales[i]]]

SampleColumns == <<"Region", "State", "City", "Category", "Sales">>

\* The CSV of the pivot table: a Sub-Category column, then one column per
\* month present.
PivotCsv(pv) ==
    LET subs == SelectSeq(KeyOrder("SubCategory"),
                          LAMBDA k : \E q \in DOMAIN pv : q[1] = k)
        months == SelectSeq(MonthNames, LAMBDA m : \E q \in DOMAIN pv : q[2] = m)
    IN  [header |-> <<"SubCategory">> \o months,
         lines  |-> [i \in 1..Len(subs) |->
                       <<subs[i]>> \o
                       [j \in 1..Len(months) |->
                           IF <<subs[i], months[j]>> \in DOMAIN pv
                           THEN pv[<<subs[i], months[j]>>] ELSE [num |-> 0, den |-> 0]]]]

\* The CSV of a displayed table.
TableCsv(e) ==
    IF e.label = "Category Data" THEN to_csv(e.data, <<"Category", "Sales">>)
    ELSE IF e.label = "Region Data" THEN to_csv(e.data, <<"Region", "Sales">>)
    ELSE IF e.label = "Time Series Data"
         THEN to_csv(Untranspose(e.data), <<"month_year", "Sales">>)
    ELSE IF e.label = "Summary Table" THEN to_csv(e.data, SampleColumns)
    ELSE PivotCsv(e.data)

IsCsvOf(d, e) ==
    /\ d.data.header = TableCsv(e).header
    /\ d.data.lines = TableCsv(e).lines

DownloadFile(label) ==
    IF label = "Category Data" THEN "Category.csv"
    ELSE IF label = "Region Data" THEN "Region.csv" ELSE "TimeSeries.csv"

RECURSIVE SumColumn(_)
SumColumn(t) == IF t = <<>> THEN 0 ELSE Head(t).Sales + SumColumn(Tail(t))

RowsWith(t, col, k) == SelectSeq(t, LAMBDA r : r[col] = k)

IsGroupSum(table, col) ==
    /\ {table[i][col] : i \in 1..Len(table)} = unique(filtered_df, col)
    /\ \A i \in 1..Len(table) :
          table[i].Sales = SumSales(RowsWith(filtered_df, col, table[i][col]))
    /\ SumColumn(table) = SumSales(filtered_df)

\* C5 as claimed: when the run is done, category_df, region_df and linechart
\* hold, for each key present in filtered_df, the sum of Sales of the
\* filtered rows with that key, their grand totals are the total Sales of
\* filtered_df, and each cell of the Sub-Category x month pivot table is the
\* sum of Sales of the filtered rows of that Sub-Category and month.
C5_TablesAreGroupSums ==
    pc = "done" =>
        /\ IsGroupSum(category_df, "Category")
        /\ IsGroupSum(region_df, "Region")
        /\ \A i \in 1..Len(linechart) :
              linechart[i].Sales =
                SumSales(SelectSeq(filtered_df, LAMBDA r :
                    strftime_Y_b(r.month_year) = linechart[i].month_year))
        /\ SumColumn(linechart) = SumSales(filtered_df)
        /\ \A q \in DOMAIN sub_category_Year :
              sub_category_Year[q].num =
                sub_category_Year[q].den *
                SumSales(SelectSeq(filtered_df, LAMBDA r :
                    r.SubCategory = q[1] /\ r.month = q[2]))


RECURSIVE SumOver(_, _)
SumOver(K, t) ==
    IF K = {} THEN 0
    ELSE LET i == CHOOSE j \in K : TRUE
         IN  t[i].Sales + SumOver(K \ {i}, t)

\* What a run shows, stated from the file and the widget values alone: the
\* rows of the file, parsed, that the current date range and selections
\* admit, and their Sales summed per key.
AdmittedRows(t) ==
    {i \in 1..Len(t) :
        t[i].OrderDate # NaT /\ InDateRange(t[i]) /\ Selected(t[i])}
ExpectedSums(t, col) ==
    LET K == AdmittedRows(t)
    IN  {<<k, SumOver({i \in K : t[i][col] = k}, t)>> : k \in {t[i][col] : i \in K}}
LabelOf(ts) == strftime_Y_b(to_period_M(ts))
ExpectedMonthly(t) ==
    LET K == AdmittedRows(t)
    IN  {<<l, SumOver({i \in K : LabelOf(t[i].OrderDate) = l}, t)>> :
            l \in {LabelOf(t[i].OrderDate) : i \in K}}

Pairs(table, col) == {<<table[i][col], table[i].Sales>> : i \in 1..Len(table)}
Lines(csv) == Range(csv.lines)

\* C6: every run, the first or a later one of a session, starts with no
\* table and no rendered element of an earlier run; and when it has finished,
\* the widgets show the values the run used and every chart, table and
\* download of the derived tables holds what the uploaded (or default) file
\* and those widget values give: per Category, Region and month, the sum of
\* Sales of the file's parsed rows inside the date range and the selections.
C6_OutputsFollowCurrentInputs ==
  /\ pc = "import" =>
        /\ page = <<>> /\ df = <<>> /\ filtered_df = <<>>
        /\ category_df = <<>> /\ region_df = <<>> /\ linechart = <<>>
        /\ df_sample = <<>> /\ sub_category_Year = <<>>
  /\ pc = "done" =>
        \E perCell \in BOOLEAN :
            LET t == CoerceOrderDate(SourceRows, perCell)
                cat == ExpectedSums(t, "Category")
                reg == ExpectedSums(t, "Region")
                mon == ExpectedMonthly(t)
            IN  /\ \A e \in Elements("date_input") :
                      Midnight(e.data.value) = (IF e.label = "Start Date" THEN date1 ELSE date2)
                         \/ (e.data.value = NaT /\ date1 = NaT /\ date2 = NaT)
                /\ \A e \in Elements("multiselect") :
                      e.data.value = (IF e.label = "Pick your Region" THEN region
                                      ELSE IF e.label = "Pick your State" THEN state
                                      ELSE city)
                /\ Cardinality(Elements("date_input")) = 2
                /\ Cardinality(Elements("multiselect")) = 3
                /\ \A e \in Elements("chart") :
                      /\ e.label = "Category wise Sales (bar)" =>
                            Pairs(e.data, "Category") = cat /\ Len(e.data) = Cardinality(cat)
                      /\ e.label = "Region wise Sales (pie)" =>
                            Pairs(e.data, "Region") = reg /\ Len(e.data) = Cardinality(reg)
                      /\ e.label = "Time Series Analysis (line)" =>
                            Pairs(e.data, "month_year") = mon /\ Len(e.data) = Cardinality(mon)
                /\ \A e \in Elements("table") :
                      /\ e.label = "Category Data" => Pairs(e.data, "Category") = cat
                      /\ e.label = "Region Data" => Pairs(e.data, "Region") = reg
                      /\ e.label = "Time Series Data" =>
                            Pairs(Untranspose(e.data), "month_year") = mon
                /\ \A e \in Elements("download_button") :
                      /\ e.label = "Category.csv" => Lines(e.data) = cat
                      /\ e.label = "Region.csv" => Lines(e.data) = reg
                      /\ e.label = "TimeSeries.csv" => Lines(e.data) = mon
                /\ Cardinality(Elements("chart")) = 7
                /\ Cardinality(Elements("table")) = 5
                /\ Cardinality(Elements("download_button")) = 4

\* C6 witness: a later run of the session has finished with a selection
\* that drops a row and keeps a row.
C6_Witness ==
    /\ pc = "done"
    /\ runs >= 2
    /\ region # {}
    /\ Len(filtered_df) >= 1
    /\ Len(filtered_df) < Len(df)

PastLoad == pc \notin {"import", "load", "stopped"}

\* C7 as claimed: once a run is past loading, an uploaded file is the source
\* that was read, the default path is the source only when nothing is
\* uploaded, and the reader that parsed an upload is the one for its type,
\* whatever the letter case of its extension.
C7_ReaderMatchesType ==
    PastLoad =>
        /\ fl # NoFile => source = "upload"
        /\ source = "default" => fl = NoFile
        /\ source = "upload" => reader = FileFormat(fl.name)

\* C8 as claimed: in a finished run the Data.csv download holds one line per
\* loaded row, with the row's values.
C8_DownloadIsOriginal ==
    pc = "done" =>
        LET csv == Element("download_button", "Data.csv").data
        IN  /\ Len(csv.lines) = Len(loaded)
            /\ \A i \in 1..Len(loaded) :
                  \A j \in 2..Len(DataColumns) : csv.lines[i][j] = loaded[i][DataColumns[j]]

DefaultStart == Midnight(DateOf(MinDate(loaded)))
DefaultEnd == Midnight(DateOf(MaxDate(loaded)))

\* C9 as claimed: once the date-range filter has run on a table with rows,
\* df still holds every loaded row when both date inputs are at their
\* defaults, and df is empty when Start Date is later than End Date.
C9_DefaultRangeKeepsAll ==
    pc \in AfterDates /\ loaded # <<>> =>
        /\ (date1 = DefaultStart /\ date2 = DefaultEnd => df = loaded)
        /\ (date1 > date2 => df = <<>>)

\* The calendar month a "%Y-%b" label names, counted from year 0.
LabelMonth(l) ==
    l.Y * 12 + (CHOOSE m \in 1..12 : MonthAbbr[m] = l.b) - 1

\* C10 as claimed: in a finished run linechart has one row per calendar
\* month present in filtered_df, and an earlier month's row comes before a
\* later month's.
C10_TimeSeriesChronological ==
    pc = "done" =>
        /\ {LabelMonth(linechart[i].month_year) : i \in 1..Len(linechart)}
              = {filtered_df[i].month_year : i \in 1..Len(filtered_df)}
        /\ \A i, j \in 1..Len(linechart) :
              i < j => LabelMonth(linechart[i].month_year)
                         < LabelMonth(linechart[j].month_year)

====
